---- MODULE Spec2Model ----
(***************************************************************************)
(* A model of fairpy's ValuationMatrix (src/valuations.py).                *)
(*                                                                         *)
(* The heap holds numpy arrays (`arrays`) and ValuationMatrix instances    *)
(* (`insts`); an instance refers to its backing array by its position in   *)
(* `arrays`, so that two instances can share one array.  A numpy array is  *)
(* a record of its shape and its row-major data buffer; a Python list of   *)
(* rows is a sequence of sequences.  Indices are Python's: 0-based, and a  *)
(* negative index counts from the end.                                     *)
(***************************************************************************)
EXTENDS Integers, Sequences, FiniteSets

VARIABLES arrays, insts, made, result

vars == <<arrays, insts, made, result>>

----------------------------------------------------------------------------
(* Bounds of the model *)

MaxCells == 4
MaxInsts == 3
MaxBundle == 2

Values == {0, 1}

Shapes == {s \in (1..MaxCells) \X (1..MaxCells) : s[1] * s[2] <= MaxCells}

\* the non-empty rectangular tables of values, as Python lists of rows
Tables == UNION {[1..s[1] -> [1..s[2] -> Values]] : s \in Shapes}

----------------------------------------------------------------------------
(* Python and numpy primitives *)

\* a[i] raises IndexError unless -n <= i < n
InRange(i, n) == -n <= i /\ i < n

\* a negative index counts from the end
Norm(i, n) == IF i < 0 THEN i + n ELSE i

\* np.array(list_of_rows): a fresh 2-D array holding the rows, row-major
np_array(rows) ==
  LET r == Len(rows)
      c == Len(rows[1])
  IN [shape |-> <<r, c>>,
      data  |-> [k \in 1..(r * c) |-> rows[((k - 1) \div c) + 1][((k - 1) % c) + 1]]]

\* len(a) of a 2-D array: the size of axis 0
np_len(a) == a.shape[1]

\* a[i] of a 2-D array with i in range: row i as a sequence
np_row(a, i) ==
  LET c == a.shape[2]
      k == Norm(i, a.shape[1])
  IN [j \in 1..c |-> a.data[k * c + j]]

\* np.delete with the column test off by one: it drops column obj + 1 unless
\* obj is the last column
np_delete_next_column(a, obj, axis) ==
  LET r == a.shape[1]
      c == a.shape[2]
      d == Norm(obj, a.shape[axis + 1])
  IN IF axis = 0
     THEN [shape |-> <<r - 1, c>>,
           data  |-> [k \in 1..((r - 1) * c) |->
                        LET i == (k - 1) \div c
                            j == (k - 1) % c
                        IN a.data[(IF i < d THEN i ELSE i + 1) * c + j + 1]]]
     ELSE [shape |-> <<r, c - 1>>,
           data  |-> [k \in 1..(r * (c - 1)) |->
                        LET i == (k - 1) \div (c - 1)
                            j == (k - 1) % (c - 1)
                        IN a.data[i * c + (IF j <= d /\ d < c - 1 THEN j ELSE j + 1) + 1]]]

\* np.delete(a, obj, axis) with obj in range: a new array without that row/column
np_delete(a, obj, axis) ==
  LET r == a.shape[1]
      c == a.shape[2]
      d == Norm(obj, a.shape[axis + 1])
  IN IF axis = 0
     THEN [shape |-> <<r - 1, c>>,
           data  |-> [k \in 1..((r - 1) * c) |->
                        LET i == (k - 1) \div c
                            j == (k - 1) % c
                        IN a.data[(IF i < d THEN i ELSE i + 1) * c + j + 1]]]
     ELSE [shape |-> <<r, c - 1>>,
           data  |-> [k \in 1..(r * (c - 1)) |->
                        LET i == (k - 1) \div (c - 1)
                            j == (k - 1) % (c - 1)
                        IN a.data[i * c + (IF j < d THEN j ELSE j + 1) + 1]]]

\* np.array_equal comparing the data buffers only, whatever the shapes
np_array_equal_flat(a1, a2) == a1.data = a2.data

\* np.array_equal(a1, a2): same shape and all elements equal
np_array_equal(a1, a2) ==
  /\ a1.shape = a2.shape
  /\ \A k \in 1..Len(a1.data) : a1.data[k] = a2.data[k]

----------------------------------------------------------------------------
(* ValuationMatrix *)

NoBundle == [isNone |-> TRUE, items |-> <<>>]

NoResult ==
  [op |-> "none", self |-> 0, other |-> 0, key |-> 0, bundle |-> NoBundle,
   status |-> "ok", value |-> 0, eq |-> FALSE, new |-> 0, reads |-> <<>>]

ListArg(rows) == [kind |-> "list", rows |-> rows, id |-> 0]
ArrayArg(id) == [kind |-> "ndarray", rows |-> <<>>, id |-> id]
InstArg(id) == [kind |-> "ValuationMatrix", rows |-> <<>>, id |-> id]

NoInst == [v |-> 0, num_of_agents |-> 0, num_of_objects |-> 0]

\* __init__ taking both counts from the array's shape: no row is read, and an
\* array without rows is accepted
init_from_shape(arrs, arg) ==
  LET arrs2 == IF arg.kind = "list" THEN Append(arrs, np_array(arg.rows)) ELSE arrs
      vid   == CASE arg.kind = "list" -> Len(arrs2)
                 [] arg.kind = "ValuationMatrix" -> insts[arg.id].v
                 [] OTHER -> arg.id
      a     == arrs2[vid]
  IN [status |-> "ok", arrays |-> arrs2,
      self   |-> [v |-> vid, num_of_agents |-> a.shape[1], num_of_objects |-> a.shape[2]]]

\* __init__ copying the array of the instance it is given
init_copying(arrs, arg) ==
  LET arrs2 == CASE arg.kind = "list" -> Append(arrs, np_array(arg.rows))
                 [] arg.kind = "ValuationMatrix" -> Append(arrs, arrs[insts[arg.id].v])
                 [] OTHER -> arrs
      vid   == IF arg.kind = "ndarray" THEN arg.id ELSE Len(arrs2)
      a     == arrs2[vid]
  IN IF ~InRange(0, np_len(a))
     THEN [status |-> "IndexError", arrays |-> arrs, self |-> NoInst]
     ELSE [status |-> "ok", arrays |-> arrs2,
           self   |-> [v |-> vid,
                       num_of_agents  |-> np_len(a),
                       num_of_objects |-> Len(np_row(a, 0))]]

\* ValuationMatrix.__init__(valuation_matrix) on the heap of arrays arrs.
\* A list is converted to a fresh array, another instance gives its own
\* backing array, an array is kept as it is; len(valuation_matrix[0]) raises
\* IndexError when the array has no rows.
__init__(arrs, arg) ==
  LET arrs2 == IF arg.kind = "list" THEN Append(arrs, np_array(arg.rows)) ELSE arrs
      vid   == CASE arg.kind = "list" -> Len(arrs2)
                 [] arg.kind = "ValuationMatrix" -> insts[arg.id].v
                 [] OTHER -> arg.id
      a     == arrs2[vid]
  IN IF ~InRange(0, np_len(a))
     THEN [status |-> "IndexError", arrays |-> arrs, self |-> NoInst]
     ELSE [status |-> "ok", arrays |-> arrs2,
           self   |-> [v |-> vid,
                       num_of_agents  |-> np_len(a),
                       num_of_objects |-> Len(np_row(a, 0))]]

\* what a call leaves behind: the heap and the record of the call
Raised(res) ==
  [arrays |-> arrays, insts |-> insts, made |-> made,
   result |-> [res EXCEPT !.status = "IndexError"]]

Made(kind, rows, from) == [kind |-> kind, rows |-> rows, from |-> from]

\* the rows an instance holds, as a Python list of rows (self._v.tolist())
tolist(self) ==
  LET a == arrays[insts[self].v]
  IN [i \in 1..a.shape[1] |-> [j \in 1..a.shape[2] |-> a.data[(i - 1) * a.shape[2] + j]]]

\* ValuationMatrix(arg) called by client code, on the heap of arrays arrs
ValuationMatrix(arrs, arg, origin) ==
  LET r   == __init__(arrs, arg)
      res == [NoResult EXCEPT !.op = "__init__", !.other = arg.id]
  IN IF r.status # "ok"
     THEN Raised(res)
     ELSE [arrays |-> r.arrays,
           insts  |-> Append(insts, r.self),
           made   |-> Append(made, origin),
           result |-> [res EXCEPT !.new = Len(insts) + 1]]

\* without_agent deleting the row in self's own array and returning self
without_agent_in_place(self, agent) ==
  LET a   == arrays[insts[self].v]
      res == [NoResult EXCEPT !.op = "without_agent", !.self = self, !.key = agent]
  IN IF ~InRange(agent, a.shape[1])
     THEN Raised(res)
     ELSE [arrays |-> [arrays EXCEPT ![insts[self].v] = np_delete(a, agent, 0)],
           insts  |-> [insts EXCEPT ![self].num_of_agents = a.shape[1] - 1],
           made   |-> made,
           result |-> [res EXCEPT !.new = self]]

\* self.without_agent(agent):
\* ValuationMatrix(np.delete(self._v, agent, axis=0))
without_agent(self, agent) ==
  LET a   == arrays[insts[self].v]
      res == [NoResult EXCEPT !.op = "without_agent", !.self = self, !.key = agent]
  IN IF ~InRange(agent, a.shape[1])
     THEN Raised(res)
     ELSE LET arrs2 == Append(arrays, np_delete(a, agent, 0))
              r     == __init__(arrs2, ArrayArg(Len(arrs2)))
          IN IF r.status # "ok"
             THEN Raised(res)
             ELSE [arrays |-> r.arrays,
                   insts  |-> Append(insts, r.self),
                   made   |-> Append(made, Made("derived", <<>>, self)),
                   result |-> [res EXCEPT !.new = Len(insts) + 1]]

\* self.without_object(object):
\* ValuationMatrix(np.delete(self._v, object, axis=1))
without_object(self, object) ==
  LET a   == arrays[insts[self].v]
      res == [NoResult EXCEPT !.op = "without_object", !.self = self, !.key = object]
  IN IF ~InRange(object, a.shape[2])
     THEN Raised(res)
     ELSE LET arrs2 == Append(arrays, np_delete(a, object, 1))
              r     == __init__(arrs2, ArrayArg(Len(arrs2)))
          IN IF r.status # "ok"
             THEN Raised(res)
             ELSE [arrays |-> r.arrays,
                   insts  |-> Append(insts, r.self),
                   made   |-> Append(made, Made("derived", <<>>, self)),
                   result |-> [res EXCEPT !.new = Len(insts) + 1]]

\* [self._v[agent][object] for object in bundle]: the values read, in the
\* order of the bundle; the first index out of range raises IndexError
RECURSIVE comprehension(_, _, _)
comprehension(self, agent, items) ==
  LET a == arrays[insts[self].v]
  IN IF items = <<>>
     THEN [status |-> "ok", vals |-> <<>>, reads |-> <<>>]
     ELSE IF ~InRange(agent, a.shape[1]) \/ ~InRange(Head(items), a.shape[2])
     THEN [status |-> "IndexError", vals |-> <<>>, reads |-> <<>>]
     ELSE LET rest == comprehension(self, agent, Tail(items))
          IN [status |-> rest.status,
              vals   |-> <<np_row(a, agent)[Norm(Head(items), a.shape[2]) + 1]>> \o rest.vals,
              reads  |-> <<<<agent, Head(items)>>>> \o rest.reads]

\* sum(list): 0 plus the elements, from the left
RECURSIVE sum(_)
sum(vals) ==
  IF vals = <<>> THEN 0 ELSE sum(SubSeq(vals, 1, Len(vals) - 1)) + vals[Len(vals)]

\* the items of a bundle without their repetitions, as set(bundle) keeps them
RECURSIVE Distinct(_)
Distinct(items) ==
  IF items = <<>> THEN <<>>
  ELSE LET front == SubSeq(items, 1, Len(items) - 1)
           last  == items[Len(items)]
       IN IF \E k \in 1..Len(front) : front[k] = last
          THEN Distinct(front)
          ELSE Append(Distinct(front), last)

\* agent_value_for_bundle summing over the set of the bundle's objects
agent_value_for_bundle_of_set(self, agent, bundle) ==
  LET res == [NoResult EXCEPT !.op = "agent_value_for_bundle", !.self = self,
                              !.key = agent, !.bundle = bundle]
      c   == comprehension(self, agent, Distinct(bundle.items))
  IN [arrays |-> arrays, insts |-> insts, made |-> made,
      result |-> IF bundle.isNone THEN res
                 ELSE [res EXCEPT !.status = c.status, !.reads = c.reads,
                                  !.value = IF c.status = "ok" THEN sum(c.vals) ELSE 0]]

\* agent_value_for_bundle without the test for None: iterating None raises
agent_value_for_bundle_no_none(self, agent, bundle) ==
  LET res == [NoResult EXCEPT !.op = "agent_value_for_bundle", !.self = self,
                              !.key = agent, !.bundle = bundle]
      c   == comprehension(self, agent, bundle.items)
  IN [arrays |-> arrays, insts |-> insts, made |-> made,
      result |-> IF bundle.isNone THEN [res EXCEPT !.status = "TypeError"]
                 ELSE [res EXCEPT !.status = c.status, !.reads = c.reads,
                                  !.value = IF c.status = "ok" THEN sum(c.vals) ELSE 0]]

\* agent_value_for_bundle refusing a negative object index
agent_value_for_bundle_no_negative(self, agent, bundle) ==
  LET res == [NoResult EXCEPT !.op = "agent_value_for_bundle", !.self = self,
                              !.key = agent, !.bundle = bundle]
      c   == comprehension(self, agent, bundle.items)
      neg == \E k \in 1..Len(bundle.items) : bundle.items[k] < 0
  IN [arrays |-> arrays, insts |-> insts, made |-> made,
      result |-> IF bundle.isNone THEN res
                 ELSE IF neg THEN [res EXCEPT !.status = "IndexError"]
                 ELSE [res EXCEPT !.status = c.status, !.reads = c.reads,
                                  !.value = IF c.status = "ok" THEN sum(c.vals) ELSE 0]]

\* self.agent_value_for_bundle(agent, bundle): 0 for None, otherwise
\* sum([self._v[agent][object] for object in bundle])
agent_value_for_bundle(self, agent, bundle) ==
  LET res == [NoResult EXCEPT !.op = "agent_value_for_bundle", !.self = self,
                              !.key = agent, !.bundle = bundle]
      c   == comprehension(self, agent, bundle.items)
  IN [arrays |-> arrays, insts |-> insts, made |-> made,
      result |-> IF bundle.isNone THEN res
                 ELSE [res EXCEPT !.status = c.status, !.reads = c.reads,
                                  !.value = IF c.status = "ok" THEN sum(c.vals) ELSE 0]]

\* self.equals(other): np.array_equal(self._v, other._v)
equals(self, other) ==
  [arrays |-> arrays, insts |-> insts, made |-> made,
   result |-> [NoResult EXCEPT !.op = "equals", !.self = self, !.other = other,
                               !.eq = np_array_equal(arrays[insts[self].v],
                                                     arrays[insts[other].v])]]

\* self.agents(): range(self.num_of_agents)
agents(self) == 0..(insts[self].num_of_agents - 1)

\* self.objects(): range(self.num_of_objects)
objects(self) == 0..(insts[self].num_of_objects - 1)

\* self[agent, object]
getitem(self, agent, object) ==
  LET a == arrays[insts[self].v]
  IN np_row(a, agent)[Norm(object, a.shape[2]) + 1]

----------------------------------------------------------------------------
(* The operations as steps of a client program *)

Effect(e) ==
  /\ arrays' = e.arrays
  /\ insts'  = e.insts
  /\ made'   = e.made
  /\ result' = e.result

\* the indices a client may pass for an axis of size n: all the indices in
\* range, negative ones included, and one out of range on each side
Indices(n) == (-(n + 1))..n

Selfs == 1..Len(insts)

\* the client does not catch the IndexError of a call: it ends there
Running == result.status = "ok"

\* the heap after ValuationMatrix(rows), or after ValuationMatrix(a) for the
\* caller's array a = np.array(rows), on an empty heap
Fresh(kind, rows) ==
  LET r == IF kind = "list"
           THEN __init__(<<>>, ListArg(rows))
           ELSE __init__(<<np_array(rows)>>, ArrayArg(1))
  IN [arrays |-> r.arrays, insts |-> <<r.self>>]

Init ==
  \E rows \in Tables : \E kind \in {"list", "ndarray"} :
    /\ arrays = Fresh(kind, rows).arrays
    /\ insts  = Fresh(kind, rows).insts
    /\ made   = <<Made(kind, rows, 0)>>
    /\ result = [NoResult EXCEPT !.op = "__init__", !.new = 1]

ConstructInstance ==
  /\ Running
  /\ Len(insts) < MaxInsts
  /\ \E other \in Selfs :
       Effect(ValuationMatrix(arrays, InstArg(other),
                              Made("ValuationMatrix", made[other].rows, other)))

\* ValuationMatrix(rows) for a list of rows
ConstructList(rows) ==
  Effect(ValuationMatrix(arrays, ListArg(rows), Made("list", rows, 0)))

\* a = np.array(rows) in the client, then ValuationMatrix(a)
ConstructArray(rows) ==
  Effect(ValuationMatrix(Append(arrays, np_array(rows)), ArrayArg(Len(arrays) + 1),
                         Made("ndarray", rows, 0)))

WithoutAgent ==
  /\ Running
  /\ Len(insts) < MaxInsts
  /\ \E self \in Selfs : \E agent \in Indices(insts[self].num_of_agents) :
       Effect(without_agent(self, agent))

WithoutObject ==
  /\ Running
  /\ Len(insts) < MaxInsts
  /\ \E self \in Selfs : \E object \in Indices(insts[self].num_of_objects) :
       Effect(without_object(self, object))

Next == ConstructInstance \/ WithoutAgent \/ WithoutObject

Spec == Init /\ [][Next]_vars

\* the bundles a client may pass to a matrix of n objects: None, or a list of
\* at most MaxBundle object indices
Bundles(n) ==
  {NoBundle} \cup
  {[isNone |-> FALSE, items |-> b] :
     b \in UNION {[1..len -> Indices(n)] : len \in 0..MaxBundle}}

\* The call changes nothing but the record of the last call, and reads nothing
\* of it: a call after another call reaches what a first call reaches.
AgentValueForBundle ==
  /\ result.op # "agent_value_for_bundle"
  /\ \E self \in Selfs :
       \E agent \in Indices(insts[self].num_of_agents) :
         \E bundle \in Bundles(insts[self].num_of_objects) :
           Effect(agent_value_for_bundle(self, agent, bundle))

\* a matrix built from a list of rows
InitBundle ==
  \E rows \in Tables :
    /\ arrays = Fresh("list", rows).arrays
    /\ insts  = Fresh("list", rows).insts
    /\ made   = <<Made("list", rows, 0)>>
    /\ result = [NoResult EXCEPT !.op = "__init__", !.new = 1]

\* one object may be removed, so that a matrix without objects is queried too
RemoveObject ==
  /\ Len(insts) = 1
  /\ \E object \in 0..(insts[1].num_of_objects - 1) :
       Effect(without_object(1, object))

NextBundle == AgentValueForBundle \/ RemoveObject

SpecBundle == InitBundle /\ [][NextBundle]_vars

\* Two matrices built from two tables, each possibly without its only object,
\* are compared.

SecondOperand ==
  /\ Len(insts) = 1
  /\ \E rows \in Tables : ConstructList(rows)

RemoveOnlyObject ==
  \E self \in Selfs :
    /\ insts[self].num_of_objects = 1
    /\ \A i \in Selfs : made[i].from # self
    /\ Effect(without_object(self, 0))

\* As agent_value_for_bundle, equals changes and reads nothing of the heap.
Equals ==
  /\ result.op # "equals"
  /\ \E self \in Selfs : \E other \in Selfs : Effect(equals(self, other))

NextEquals == SecondOperand \/ RemoveOnlyObject \/ Equals

SpecEquals == InitBundle /\ [][NextEquals]_vars

\* One table of values is given to the constructor as a list of rows, as an
\* array, and as the instances built from them.

InitConstruct ==
  /\ arrays = <<>>
  /\ insts  = <<>>
  /\ made   = <<>>
  /\ result = NoResult

SameTable == IF made = <<>> THEN Tables ELSE {made[1].rows}

FromList ==
  /\ Len(insts) < MaxInsts
  /\ \E rows \in SameTable : ConstructList(rows)

FromArray ==
  /\ Len(insts) < MaxInsts
  /\ \E rows \in SameTable : ConstructArray(rows)

NextConstruct == FromList \/ FromArray \/ ConstructInstance

SpecConstruct == InitConstruct /\ [][NextConstruct]_vars

----------------------------------------------------------------------------
(* Reductions: without_agent, without_object *)

Reduced(op) == result.op = op /\ result.status = "ok"

\* the list of rows without its a-th row (0-based)
RowsWithout(rows, a) ==
  [i \in 1..(Len(rows) - 1) |-> rows[IF i <= a THEN i ELSE i + 1]]

\* the list of rows without the o-th element (0-based) of every row
ColumnsWithout(rows, o) ==
  [i \in 1..Len(rows) |->
     [j \in 1..(Len(rows[i]) - 1) |-> rows[i][IF j <= o THEN j ELSE j + 1]]]

\* C3: for an agent index a in [0, num_of_agents), without_agent(a) returns a
\* matrix holding the rows of M without row a, in their order, with one agent
\* less and as many objects.
C3_WithoutAgentDeletesRow ==
  (result.op = "without_agent"
     /\ result.key \in 0..(insts[result.self].num_of_agents - 1))
  => /\ result.status = "ok"
     /\ tolist(result.new) = RowsWithout(tolist(result.self), result.key)
     /\ insts[result.new].num_of_agents = insts[result.self].num_of_agents - 1
     /\ insts[result.new].num_of_objects = insts[result.self].num_of_objects

\* C4: for an object index o in [0, num_of_objects), without_object(o) returns
\* a matrix holding M's rows without their column o, the other columns in their
\* order, with one object less and as many agents; also when o is the only
\* object of M.
C4_WithoutObjectDeletesColumn ==
  (result.op = "without_object"
     /\ result.key \in 0..(insts[result.self].num_of_objects - 1))
  => /\ result.status = "ok"
     /\ tolist(result.new) = ColumnsWithout(tolist(result.self), result.key)
     /\ insts[result.new].num_of_objects = insts[result.self].num_of_objects - 1
     /\ insts[result.new].num_of_agents = insts[result.self].num_of_agents

\* without_object(0) has removed the only object of a matrix of two agents
C4_Witness ==
  /\ Reduced("without_object")
  /\ result.key = 0
  /\ insts[result.self].num_of_objects = 1
  /\ insts[result.self].num_of_agents = 2
  /\ insts[result.new].num_of_objects = 0

\* C5: no call changes an instance that exists, nor the array behind it;
\* a call that raises changes nothing either.
C5_SourceNeverMutated ==
  [][\A i \in Selfs :
       /\ Len(insts') >= i
       /\ insts'[i] = insts[i]
       /\ arrays'[insts[i].v] = arrays[insts[i].v]]_vars

\* a reduction of a matrix that is itself a reduction has raised
C5_Witness ==
  /\ result.op \in {"without_agent", "without_object"}
  /\ result.status = "IndexError"
  /\ made[result.self].kind = "derived"

\* C7: without_agent(0) on a matrix of exactly one agent returns a matrix of
\* zero agents and as many objects; the call does not fail.
C7_RemovingOnlyAgent ==
  (result.op = "without_agent"
     /\ result.key = 0
     /\ insts[result.self].num_of_agents = 1)
  => /\ result.status = "ok"
     /\ insts[result.new].num_of_agents = 0
     /\ insts[result.new].num_of_objects = insts[result.self].num_of_objects

\* C10: every instance's num_of_agents is the number of rows of its array,
\* every row has num_of_objects elements, and num_of_agents >= 1.
C10_ShapeInvariant ==
  \A i \in Selfs :
    LET a == arrays[insts[i].v]
    IN /\ insts[i].num_of_agents = np_len(a)
       /\ Len(a.data) = insts[i].num_of_agents * insts[i].num_of_objects
       /\ \A k \in 0..(np_len(a) - 1) : Len(np_row(a, k)) = insts[i].num_of_objects
       /\ Len(tolist(i)) = insts[i].num_of_agents
       /\ insts[i].num_of_agents >= 1

\* an instance without objects exists, and removing an only agent has raised
C10_Witness ==
  /\ \E i \in Selfs : insts[i].num_of_objects = 0
  /\ result.op = "without_agent"
  /\ result.status = "IndexError"
  /\ result.key = 0
  /\ insts[result.self].num_of_agents = 1

----------------------------------------------------------------------------
(* agent_value_for_bundle *)

Called(op) == result.op = op

\* the sum, over the objects o of the set S, of v[agent][o] times the number of
\* items of the recorded bundle that denote o
RECURSIVE SumOver(_, _, _)
SumOver(S, self, agent) ==
  IF S = {} THEN 0
  ELSE LET o == CHOOSE x \in S : TRUE
           n == insts[self].num_of_objects
           count == Cardinality({k \in 1..Len(result.bundle.items) :
                                   Norm(result.bundle.items[k], n) = o})
       IN count * getitem(self, agent, o) + SumOver(S \ {o}, self, agent)

\* C1: for a valid agent a and a bundle B of object indices in
\* [0, num_of_objects), agent_value_for_bundle(a, B) is the sum over the objects
\* o of (the number of occurrences of o in B) * v[a][o], whatever B's order.
C1_BundleValueIsSum ==
  (Called("agent_value_for_bundle")
     /\ ~result.bundle.isNone
     /\ result.key \in agents(result.self)
     /\ \A k \in 1..Len(result.bundle.items) : result.bundle.items[k] \in objects(result.self))
  => /\ result.status = "ok"
     /\ result.value = SumOver(objects(result.self), result.self, result.key)

\* an object of value 1 appears twice in the bundle and counts twice
C1_Witness ==
  /\ Called("agent_value_for_bundle")
  /\ result.status = "ok"
  /\ result.key \in agents(result.self)
  /\ Len(result.bundle.items) = 2
  /\ result.bundle.items[1] = result.bundle.items[2]
  /\ result.bundle.items[1] \in objects(result.self)
  /\ result.value = 2

\* C2: for a valid agent, agent_value_for_bundle of None and of an empty
\* collection both return 0, read no cell and do not fail.
C2_NoneAndEmptyAreZero ==
  (Called("agent_value_for_bundle")
     /\ result.key \in agents(result.self)
     /\ (result.bundle.isNone \/ result.bundle.items = <<>>))
  => /\ result.status = "ok"
     /\ result.value = 0
     /\ result.reads = <<>>

\* None was passed for an agent whose values are not all 0
C2_Witness ==
  /\ Called("agent_value_for_bundle")
  /\ result.bundle.isNone
  /\ result.status = "ok"
  /\ result.key \in agents(result.self)
  /\ \E o \in objects(result.self) : getitem(result.self, result.key, o) = 1

\* C6 as stated: any object index of B outside [0, num_of_objects), a
\* negative one included, makes the call fail with an index-range error.
C6_AnyIndexOutsideRaises ==
  (Called("agent_value_for_bundle")
     /\ ~result.bundle.isNone
     /\ \E k \in 1..Len(result.bundle.items) : result.bundle.items[k] \notin objects(result.self))
  => result.status = "IndexError"

\* C6 as amended: an object index o of B with o >= num_of_objects or
\* o < -num_of_objects makes the call fail with an index-range error; an index
\* in [-num_of_objects, -1] does not: it counts from the end, and the call
\* returns the sum with v[a][num_of_objects + o] for it.
C6_IndexOutOfRangeRaises ==
  Called("agent_value_for_bundle") /\ ~result.bundle.isNone
  => LET n     == insts[result.self].num_of_objects
         items == result.bundle.items
     IN /\ (\E k \in 1..Len(items) : items[k] >= n \/ items[k] < -n)
             => result.status = "IndexError"
        /\ (result.key \in agents(result.self)
              /\ \A k \in 1..Len(items) : -n <= items[k] /\ items[k] < n)
             => /\ result.status = "ok"
                /\ result.value = SumOver(objects(result.self), result.self, result.key)

\* the second index of a bundle is past the last object: the call has raised
\* after reading the first
C6_Witness ==
  /\ Called("agent_value_for_bundle")
  /\ result.status = "IndexError"
  /\ result.key \in agents(result.self)
  /\ Len(result.bundle.items) = 2
  /\ result.bundle.items[2] = insts[result.self].num_of_objects
  /\ Len(result.reads) = 1

----------------------------------------------------------------------------
(* equals and construction *)

SameCells(self, other) ==
  /\ insts[self].num_of_agents = insts[other].num_of_agents
  /\ insts[self].num_of_objects = insts[other].num_of_objects
  /\ \A i \in agents(self) : \A j \in objects(self) :
       getitem(self, i, j) = getitem(other, i, j)

\* C8: A.equals(B) is true exactly when A and B have as many agents, as many
\* objects and the same value in every cell; it is true of A and A, and
\* B.equals(A) gives the same answer.
C8_EqualsIsStructural ==
  Called("equals")
  => /\ result.eq = SameCells(result.self, result.other)
     /\ (result.self = result.other => result.eq)
     /\ result.eq = equals(result.other, result.self).result.eq

\* two matrices built apart from each other, on two arrays, are equal
C8_Witness ==
  /\ Called("equals")
  /\ result.eq
  /\ result.self # result.other
  /\ insts[result.self].v # insts[result.other].v
  /\ insts[result.self].num_of_agents = 2

\* C9: the matrices built from one table as a list of rows, as an array and as
\* another ValuationMatrix are equal, pair by pair, hold the table and have its
\* numbers of rows and columns; one built from an instance has that instance's
\* array.
C9_ConstructionsAgree ==
  \A i \in Selfs :
    /\ tolist(i) = made[i].rows
    /\ insts[i].num_of_agents = Len(made[i].rows)
    /\ insts[i].num_of_objects = Len(made[i].rows[1])
    /\ made[i].kind = "ValuationMatrix" => insts[i].v = insts[made[i].from].v
    /\ \A j \in Selfs :
         made[i].rows = made[j].rows
         => /\ equals(i, j).result.eq
            /\ insts[i].num_of_agents = insts[j].num_of_agents
            /\ insts[i].num_of_objects = insts[j].num_of_objects

\* a list of two rows, an array holding it and an instance built from an
\* instance have been given to the constructor
C9_Witness ==
  /\ \E i \in Selfs : made[i].kind = "list" /\ Len(made[i].rows) = 2
  /\ \E i \in Selfs : made[i].kind = "ndarray"
  /\ \E i \in Selfs : made[i].kind = "ValuationMatrix"

====
